---- MODULE Spec2Model ----
(***************************************************************************)
(* Credential persistence of flowman: the Shell Detector, the Config File  *)
(* Store (ConfigFileManager), the Credential Store (CredentialStorage)     *)
(* and the Auth Coordinator (AuthManager).                                 *)
(*                                                                         *)
(* Text (file contents, variable names, values) is a sequence of           *)
(* characters.  A fixed word that the regular expressions only ever match  *)
(* as a whole ("export", "set", "-gx", "$env:", the chunks of a variable   *)
(* name, the text of a comment) is one element of the sequence.            *)
(***************************************************************************)
EXTENDS Integers, Sequences, FiniteSets, TLC

\* ------------------------------------------------------------------------
\* Characters and JavaScript values
\* ------------------------------------------------------------------------

NL == "\n"
DQ == "\""
SQ == "'"

\* null / undefined / a deleted process.env entry / a file that does not exist
Null == <<"<null>">>
\* a value that is not a string (a number, an object)
NotString == <<"<number>">>

\* \s of the regular expressions
IsWs(c) == c \in {" ", NL, "\t"}

\* ["'] of the regular expressions
IsQuote(c) == c \in {DQ, SQ}

\* JavaScript truthiness of a string-or-null value: null and "" are falsy
Truthy(v) == v # Null /\ v # <<>>

\* ------------------------------------------------------------------------
\* Regular-expression primitives
\* ------------------------------------------------------------------------

\* index of the first character at or after i that is not whitespace
\* (Len(s) + 1 when there is none): the greedy \s*
RECURSIVE SkipWs(_, _)
SkipWs(s, i) ==
  IF i > Len(s) \/ ~IsWs(s[i]) THEN i ELSE SkipWs(s, i + 1)

\* index just after the last character of the line that position i is on
\* (the position of the next "\n", or Len(s) + 1): the greedy .* before $
RECURSIVE LineEnd(_, _)
LineEnd(s, i) ==
  IF i > Len(s) \/ s[i] = NL THEN i ELSE LineEnd(s, i + 1)

\* index just after the longest run of [^"'\n] starting at i
RECURSIVE CaptureEnd(_, _)
CaptureEnd(s, i) ==
  IF i > Len(s) \/ IsQuote(s[i]) \/ s[i] = NL THEN i ELSE CaptureEnd(s, i + 1)

\* the literal lit occurs in s at position i
MatchLit(s, i, lit) ==
  /\ i >= 1
  /\ i + Len(lit) - 1 <= Len(s)
  /\ SubSeq(s, i, i + Len(lit) - 1) = lit

\* ------------------------------------------------------------------------
\* Shell Detector
\* ------------------------------------------------------------------------

\* the names detectShell can return that the operations on the stores are
\* run with; "sh" stands for every name the tables below neither list nor
\* inherit
Shells == {"bash", "zsh", "fish", "powershell", "cmd", "sh"}

\* names that every table below answers for although it does not list them:
\* configFiles, syntaxMap and patterns are object literals, and a lookup
\* such as configFiles['constructor'] yields the function inherited from
\* Object.prototype, which is truthy
ObjectPrototypeNames == {"constructor", "toString"}

\* path.basename(p) of a path given as its names and its "/" separators:
\* the last name, trailing separators dropped, '' when there is no name
RECURSIVE basename(_)
basename(p) ==
  IF p = <<>> THEN ""
  ELSE IF p[Len(p)] = "/" THEN basename(SubSeq(p, 1, Len(p) - 1))
  ELSE p[Len(p)]

\* ShellDetector.detectShell, shellEnv being process.env.SHELL
detectShell(shellEnv, platform) ==
  IF shellEnv # <<"<null>">> /\ shellEnv # <<>> THEN basename(shellEnv)
  ELSE CASE platform = "win32" -> "cmd"
         [] platform = "darwin" -> "zsh"
         [] OTHER -> "bash"

\* configFiles[detectedShell] || ['.profile'], then possibleFiles.map(...):
\* an inherited function has no map, the call throws a TypeError
getAllShellConfigPaths(shell) ==
  CASE shell \in ObjectPrototypeNames -> <<"<TypeError>">>
    [] shell = "bash" -> <<".bashrc", ".bash_profile", ".profile">>
    [] shell = "zsh" -> <<".zshrc", ".zprofile", ".profile">>
    [] shell = "fish" -> <<".config/fish/config.fish">>
    [] shell = "cmd" -> <<>>
    [] shell = "powershell" -> <<"Documents/PowerShell/profile.ps1">>
    [] OTHER -> <<".profile">>

Paths ==
  {".bashrc", ".bash_profile", ".profile", ".zshrc", ".zprofile",
   ".config/fish/config.fish", "Documents/PowerShell/profile.ps1"}

\* first element of paths (from index i on) whose file exists, or ""
RECURSIVE FirstExisting(_, _, _)
FirstExisting(fs, paths, i) ==
  IF i > Len(paths) THEN ""
  ELSE IF fs[paths[i]] # Null THEN paths[i]
  ELSE FirstExisting(fs, paths, i + 1)

\* getShellConfigPath without the loop over fs.existsSync: always the primary
\* candidate
getShellConfigPath_PrimaryOnly(fs, shell) ==
  IF Len(getAllShellConfigPaths(shell)) > 0
    THEN getAllShellConfigPaths(shell)[1]
  ELSE ".profile"

\* the first existing candidate, else the primary one, else '.profile'
\* (for ... of an inherited function throws a TypeError)
getShellConfigPath(fs, shell) ==
  LET possibleFiles == getAllShellConfigPaths(shell)
      found == FirstExisting(fs, possibleFiles, 1)
  IN IF shell \in ObjectPrototypeNames THEN "<TypeError>"
     ELSE IF found # "" THEN found
     ELSE IF Len(possibleFiles) > 0 THEN possibleFiles[1]
     ELSE ".profile"

\* supportsEnvPersistence with an empty list of unsupported shells
supportsEnvPersistence_EveryShell(shell) == shell \notin {}

\* !unsupportedShells.includes(detectedShell)
supportsEnvPersistence(shell) == shell \notin {"cmd"}

\* syntaxMap[detectedShell] || 'export'; for an inherited name the value
\* returned is the inherited function
getExportSyntax(shell) ==
  CASE shell \in ObjectPrototypeNames -> <<"<function>">>
    [] shell \in {"bash", "zsh"} -> <<"export">>
    [] shell = "fish" -> <<"set", " ", "-gx">>
    [] shell = "cmd" -> <<"set">>
    [] shell = "powershell" -> <<"$env:">>
    [] OTHER -> <<"export">>

\* ------------------------------------------------------------------------
\* Config File Store: the locate and remove patterns
\* ------------------------------------------------------------------------

\* patterns[shell] || patterns.bash (the zsh pattern is the bash pattern);
\* for an inherited name the pattern is the inherited function, which
\* content.match turns into a pattern made of its source text
PatternOf(shell) ==
  IF shell \in {"fish", "powershell"} THEN shell
  ELSE IF shell \in ObjectPrototypeNames THEN "function"
  ELSE "bash"

\* The part of both patterns up to the variable name, tried at position i:
\*   bash        \s*export\s+NAME=
\*   fish        \s*set\s+-gx\s+NAME
\*   powershell  \s*\$env:NAME\s*=
\* The index just after it, or 0 when it does not match at i.
HeadEnd(s, i, name, shell) ==
  LET j == SkipWs(s, i)
  IN CASE PatternOf(shell) = "bash" ->
            LET k == SkipWs(s, j + 1)
            IN IF /\ MatchLit(s, j, <<"export">>)
                  /\ k > j + 1
                  /\ MatchLit(s, k, name \o <<"=">>)
               THEN k + Len(name) + 1 ELSE 0
       [] PatternOf(shell) = "fish" ->
            LET k == SkipWs(s, j + 1)
                m == SkipWs(s, k + 1)
            IN IF /\ MatchLit(s, j, <<"set">>)
                  /\ k > j + 1
                  /\ MatchLit(s, k, <<"-gx">>)
                  /\ m > k + 1
                  /\ MatchLit(s, m, name)
               THEN m + Len(name) ELSE 0
       [] PatternOf(shell) = "function" -> 0
       [] OTHER ->
            LET m == SkipWs(s, j + 1 + Len(name))
            IN IF /\ MatchLit(s, j, <<"$env:">> \o name)
                  /\ MatchLit(s, m, <<"=">>)
               THEN m + 1 ELSE 0

\* ["']?([^"'\n]+) tried at position q: the captured text, or Null
CaptureAt(s, q) ==
  IF q <= Len(s) /\ IsQuote(s[q]) /\ CaptureEnd(s, q + 1) > q + 1
    THEN SubSeq(s, q + 1, CaptureEnd(s, q + 1) - 1)
  ELSE IF CaptureEnd(s, q) > q
    THEN SubSeq(s, q, CaptureEnd(s, q) - 1)
  ELSE Null

\* the whitespace before the value is matched greedily and given back one
\* character at a time: the capture is tried at q, q - 1, ... down to lo
RECURSIVE CaptureBacktrack(_, _, _)
CaptureBacktrack(s, q, lo) ==
  IF q < lo THEN Null
  ELSE IF CaptureAt(s, q) # Null THEN CaptureAt(s, q)
  ELSE CaptureBacktrack(s, q - 1, lo)

\* the locate pattern tried at position i: match[1], or Null
\*   bash        ...NAME=["']?([^"'\n]+)["']?
\*   fish        ...NAME\s+["']?([^"'\n]+)["']?
\*   powershell  ...NAME\s*=\s*["']?([^"'\n]+)["']?
LocateAt(s, i, name, shell) ==
  LET h == HeadEnd(s, i, name, shell)
  IN IF h = 0 THEN Null
     ELSE CASE PatternOf(shell) = "bash" -> CaptureAt(s, h)
            [] PatternOf(shell) = "fish" ->
                 CaptureBacktrack(s, SkipWs(s, h), h + 1)
            [] OTHER -> CaptureBacktrack(s, SkipWs(s, h), h)

\* the leftmost match of the locate pattern that starts at line start i or
\* at a later one (a match can only start where ^ holds)
RECURSIVE LocateFrom(_, _, _, _)
LocateFrom(s, i, name, shell) ==
  IF i > Len(s) THEN Null
  ELSE IF LocateAt(s, i, name, shell) # Null THEN LocateAt(s, i, name, shell)
  ELSE LocateFrom(s, LineEnd(s, i) + 1, name, shell)

\* content.match(pattern): the capture of the leftmost match, or null
extractEnvVariable(content, variableName, shell) ==
  LocateFrom(content, 1, variableName, shell)

\* the remove pattern tried at position i: the index just after the match,
\* or 0
\*   bash        ...NAME=.*$
\*   fish        ...NAME\s+.*$
\*   powershell  ...NAME\s*=.*$
RemoveEndAt(s, i, name, shell) ==
  LET h == HeadEnd(s, i, name, shell)
  IN IF h = 0 THEN 0
     ELSE IF PatternOf(shell) = "fish"
       THEN IF SkipWs(s, h) > h THEN LineEnd(s, SkipWs(s, h)) ELSE 0
     ELSE LineEnd(s, h)

\* content.replace(pattern, '') under the g and m flags, from line start i
\* on: a match is dropped up to the end of its last line, any other line is
\* kept with its "\n"
RECURSIVE StripLines(_, _, _, _)
StripLines(s, i, name, shell) ==
  LET e == RemoveEndAt(s, i, name, shell)
      n == LineEnd(s, i)
  IN IF i > Len(s) THEN <<>>
     ELSE IF e # 0
       THEN IF e > Len(s) THEN <<>>
            ELSE <<NL>> \o StripLines(s, e + 1, name, shell)
     ELSE IF n > Len(s) THEN SubSeq(s, i, Len(s))
     ELSE SubSeq(s, i, n) \o StripLines(s, n + 1, name, shell)

\* number of "\n" in s[i .. j - 1]
RECURSIVE CountNL(_, _, _)
CountNL(s, i, j) ==
  IF i >= j THEN 0
  ELSE (IF s[i] = NL THEN 1 ELSE 0) + CountNL(s, i + 1, j)

\* index of the last "\n" in s[i .. j - 1] (there is one)
RECURSIVE LastNL(_, _, _)
LastNL(s, i, j) ==
  IF s[j - 1] = NL THEN j - 1 ELSE LastNL(s, i, j - 1)

\* .replace(/\n\s*\n\s*\n/g, '\n\n') from position i on: a whitespace run
\* that starts with a "\n" and holds three or more of them is replaced, up
\* to its last "\n", by two
RECURSIVE CollapseBlank(_, _)
CollapseBlank(s, i) ==
  LET j == LineEnd(s, i)
      r == SkipWs(s, j)
  IN IF j > Len(s) THEN SubSeq(s, i, Len(s))
     ELSE IF CountNL(s, j, r) >= 3
       THEN SubSeq(s, i, j - 1) \o <<NL, NL>>
              \o CollapseBlank(s, LastNL(s, j, r) + 1)
     ELSE SubSeq(s, i, j) \o CollapseBlank(s, j + 1)

\* static removeEnvVariable(content, variableName, shell)
removeEnvVariable(content, variableName, shell) ==
  CollapseBlank(StripLines(content, 1, variableName, shell), 1)

\* ------------------------------------------------------------------------
\* Format validators
\* ------------------------------------------------------------------------

IsString(v) == v # Null /\ v # NotString

HexDigits ==
  {"0", "1", "2", "3", "4", "5", "6", "7", "8", "9",
   "a", "b", "c", "d", "e", "f", "A", "B", "C", "D", "E", "F"}

ApiKeyPrefix == <<"P", "M", "A", "K", "-">>

ApiKeyMinLength == 20

\* validateApiKey without the check of the length
validateApiKey_NoLength(apiKey) ==
  /\ Truthy(apiKey)
  /\ IsString(apiKey)
  /\ MatchLit(apiKey, 1, ApiKeyPrefix)

\* Validator.validateApiKey
validateApiKey(apiKey) ==
  /\ Truthy(apiKey)
  /\ IsString(apiKey)
  /\ MatchLit(apiKey, 1, ApiKeyPrefix)
  /\ Len(apiKey) >= ApiKeyMinLength

\* Validator.validateWorkspaceId:
\* /^[0-9a-f]{8}-[0-9a-f]{4}-[1-5][0-9a-f]{3}-[89ab][0-9a-f]{3}-[0-9a-f]{12}$/i
validateWorkspaceId(workspaceId) ==
  /\ Truthy(workspaceId)
  /\ IsString(workspaceId)
  /\ Len(workspaceId) = 36
  /\ \A i \in 1..36 :
       CASE i \in {9, 14, 19, 24} -> workspaceId[i] = "-"
         [] i = 15 -> workspaceId[i] \in {"1", "2", "3", "4", "5"}
         [] i = 20 -> workspaceId[i] \in {"8", "9", "a", "b", "A", "B"}
         [] OTHER -> workspaceId[i] \in HexDigits

\* ------------------------------------------------------------------------
\* State
\* ------------------------------------------------------------------------

POSTMAN_API_KEY == <<"POSTMAN_API_KEY">>
POSTMAN_WORKSPACE_ID == <<"POSTMAN_WORKSPACE_ID">>

\* names used directly against the Config File Store; the first is a prefix
\* of the second and a suffix of the third
API_KEY == <<"API_KEY">>
API_KEY_SECONDARY == <<"API_KEY", "_SECONDARY">>
MY_API_KEY == <<"MY_", "API_KEY">>

StoreNames == {API_KEY, API_KEY_SECONDARY, MY_API_KEY}
CredentialNames == {POSTMAN_API_KEY, POSTMAN_WORKSPACE_ID}
EnvNames == StoreNames \cup CredentialNames

ApiKeyComment == "Postman API Key for flowman-cli"
WorkspaceIdComment == "Postman Workspace ID for flowman-cli"
DefaultComment == "Added by flowman-cli"

VARIABLES
  shell,   \* what ShellDetector.detectShell() returns in this process
  perm,    \* access to the config files: "rw", "ro" (writes throw) or
           \* "none" (reads and writes throw)
  env,     \* process.env, restricted to EnvNames; Null = not set
  files,   \* the candidate config files: path -> content, Null = no file
  last,    \* the operation that ran last, its arguments and its result
  nops,    \* number of operations run so far
  procs    \* the invocations of the tool that run writeEnvVariable at the
           \* same time as separate processes: where each one is in the call

vars == <<shell, perm, env, files, last, nops, procs>>

\* ------------------------------------------------------------------------
\* Config File Store
\* ------------------------------------------------------------------------

\* ExportLine with the powershell template ( NAME = "value" ) used for every
\* shell
ExportLine_Spaced(sh, variableName, value) ==
  getExportSyntax(sh) \o (IF sh = "powershell" THEN <<>> ELSE <<" ">>)
    \o variableName \o <<" ", "=", " ", DQ>> \o value \o <<DQ>>

\* the export line of writeEnvVariable: switch (shell)
ExportLine(sh, variableName, value) ==
  CASE sh = "fish" ->
         getExportSyntax(sh) \o <<" ">> \o variableName
           \o <<" ", DQ>> \o value \o <<DQ>>
    [] sh = "powershell" ->
         getExportSyntax(sh) \o variableName
           \o <<" ", "=", " ", DQ>> \o value \o <<DQ>>
    [] OTHER ->
         getExportSyntax(sh) \o <<" ">> \o variableName
           \o <<"=", DQ>> \o value \o <<DQ>>

\* AppendBlock without the "\n" that opens the block
AppendBlock_NoSeparator(content, comment, exportLine) ==
  content
    \o (IF content # <<>> /\ content[Len(content)] # NL THEN <<NL>> ELSE <<>>)
    \o <<"#", " ", comment, NL>> \o exportLine \o <<NL>>

\* content + (content && !content.endsWith('\n') ? '\n' : '')
\*         + `\n# ${comment}\n${exportLine}\n`
AppendBlock(content, comment, exportLine) ==
  content
    \o (IF content # <<>> /\ content[Len(content)] # NL THEN <<NL>> ELSE <<>>)
    \o <<NL, "#", " ", comment, NL>> \o exportLine \o <<NL>>

\* ReadFiles that lets a later candidate file win over an earlier one
RECURSIVE ReadFiles_LaterFileWins(_, _, _, _, _, _)
ReadFiles_LaterFileWins(fs, sh, pm, paths, i, variableName) ==
  IF i > Len(paths) THEN Null
  ELSE IF ReadFiles_LaterFileWins(fs, sh, pm, paths, i + 1, variableName)
            # Null
    THEN ReadFiles_LaterFileWins(fs, sh, pm, paths, i + 1, variableName)
  ELSE IF /\ fs[paths[i]] # Null
          /\ pm # "none"
          /\ extractEnvVariable(fs[paths[i]], variableName, sh) # Null
    THEN extractEnvVariable(fs[paths[i]], variableName, sh)
  ELSE Null

\* ConfigFileManager.readEnvVariable, the scan of the candidate files from
\* index i on; an unreadable file throws and is skipped
RECURSIVE ReadFiles(_, _, _, _, _, _)
ReadFiles(fs, sh, pm, paths, i, variableName) ==
  IF i > Len(paths) THEN Null
  ELSE IF /\ fs[paths[i]] # Null
          /\ pm # "none"
          /\ extractEnvVariable(fs[paths[i]], variableName, sh) # Null
    THEN extractEnvVariable(fs[paths[i]], variableName, sh)
  ELSE ReadFiles(fs, sh, pm, paths, i + 1, variableName)

\* readEnvVariable that returns every value the environment holds, the
\* empty string too ( process.env[variableName] !== undefined )
readEnvVariable_AnyEnv(en, fs, sh, pm, variableName) ==
  IF en[variableName] # Null THEN en[variableName]
  ELSE ReadFiles(fs, sh, pm, getAllShellConfigPaths(sh), 1, variableName)

\* ConfigFileManager.readEnvVariable
readEnvVariable(en, fs, sh, pm, variableName) ==
  IF Truthy(en[variableName]) THEN en[variableName]
  ELSE ReadFiles(fs, sh, pm, getAllShellConfigPaths(sh), 1, variableName)

\* ConfigFileManager.hasEnvVariable
hasEnvVariable(en, fs, sh, pm, variableName) ==
  readEnvVariable(en, fs, sh, pm, variableName) # Null

\* writeEnvVariable whose fs.writeFileSync goes through whatever the access
\* to the file is
writeEnvVariable_NoPerm(fs, sh, pm, variableName, value, comment, overwrite) ==
  LET configPath == getShellConfigPath(fs, sh)
      exists == fs[configPath] # Null
      content == IF exists THEN fs[configPath] ELSE <<>>
      existingValue == extractEnvVariable(content, variableName, sh)
      kept == IF existingValue # Null
                THEN removeEnvVariable(content, variableName, sh)
                ELSE content
      newContent ==
        AppendBlock(kept, comment, ExportLine(sh, variableName, value))
  IN IF ~supportsEnvPersistence(sh) THEN [ret |-> FALSE, files |-> fs]
     ELSE IF exists /\ pm = "none" THEN [ret |-> FALSE, files |-> fs]
     ELSE IF existingValue # Null /\ ~overwrite
       THEN [ret |-> TRUE, files |-> fs]
     ELSE [ret |-> TRUE, files |-> [fs EXCEPT ![configPath] = newContent]]

\* ConfigFileManager.writeEnvVariable: the value returned and the files
\* afterwards
writeEnvVariable(fs, sh, pm, variableName, value, comment, overwrite) ==
  LET configPath == getShellConfigPath(fs, sh)
      exists == fs[configPath] # Null
      content == IF exists THEN fs[configPath] ELSE <<>>
      existingValue == extractEnvVariable(content, variableName, sh)
      kept == IF existingValue # Null
                THEN removeEnvVariable(content, variableName, sh)
                ELSE content
      newContent ==
        AppendBlock(kept, comment, ExportLine(sh, variableName, value))
  IN IF ~supportsEnvPersistence(sh) THEN [ret |-> FALSE, files |-> fs]
     ELSE IF exists /\ pm = "none" THEN [ret |-> FALSE, files |-> fs]
     ELSE IF existingValue # Null /\ ~overwrite
       THEN [ret |-> TRUE, files |-> fs]
     ELSE IF pm # "rw" THEN [ret |-> FALSE, files |-> fs]
     ELSE [ret |-> TRUE, files |-> [fs EXCEPT ![configPath] = newContent]]

\* ConfigFileManager.removeEnvVariable(variableName) as CredentialStorage
\* calls it.  The class declares two static methods of this name and the
\* later declaration (content, variableName, shell) replaces the earlier
\* (variableName, options): the call runs the later one with the name as
\* content, variableName = undefined and shell = undefined, touches no file
\* and returns a string.
removeEnvVariableCall(variableName) ==
  removeEnvVariable(variableName, <<"undefined">>, "undefined")

\* ------------------------------------------------------------------------
\* Credential Store
\* ------------------------------------------------------------------------

\* storeApiKey without  process.env[this.POSTMAN_API_KEY] = apiKey
storeApiKey_FileOnly(en, fs, sh, pm, apiKey) ==
  IF ~validateApiKey(apiKey) THEN [ret |-> FALSE, env |-> en, files |-> fs]
  ELSE LET w == writeEnvVariable(fs, sh, pm, POSTMAN_API_KEY, apiKey,
                                 ApiKeyComment, TRUE)
       IN [ret |-> w.ret, env |-> en, files |-> w.files]

\* CredentialStorage.storeApiKey: the value returned, process.env and the
\* files afterwards
storeApiKey(en, fs, sh, pm, apiKey) ==
  IF ~validateApiKey(apiKey) THEN [ret |-> FALSE, env |-> en, files |-> fs]
  ELSE LET w == writeEnvVariable(fs, sh, pm, POSTMAN_API_KEY, apiKey,
                                 ApiKeyComment, TRUE)
       IN [ret |-> w.ret,
           env |-> IF w.ret THEN [en EXCEPT ![POSTMAN_API_KEY] = apiKey]
                   ELSE en,
           files |-> w.files]

\* CredentialStorage.storeWorkspaceId
storeWorkspaceId(en, fs, sh, pm, workspaceId) ==
  IF ~validateWorkspaceId(workspaceId)
    THEN [ret |-> FALSE, env |-> en, files |-> fs]
  ELSE LET w == writeEnvVariable(fs, sh, pm, POSTMAN_WORKSPACE_ID, workspaceId,
                                 WorkspaceIdComment, TRUE)
       IN [ret |-> w.ret,
           env |-> IF w.ret
                     THEN [en EXCEPT ![POSTMAN_WORKSPACE_ID] = workspaceId]
                   ELSE en,
           files |-> w.files]

\* CredentialStorage.getApiKey
getApiKey(en, fs, sh, pm) == readEnvVariable(en, fs, sh, pm, POSTMAN_API_KEY)

\* CredentialStorage.getWorkspaceId
getWorkspaceId(en, fs, sh, pm) ==
  readEnvVariable(en, fs, sh, pm, POSTMAN_WORKSPACE_ID)

\* CredentialStorage.hasApiKey
hasApiKey(en, fs, sh, pm) == hasEnvVariable(en, fs, sh, pm, POSTMAN_API_KEY)

\* CredentialStorage.isAuthenticated
isAuthenticated(en, fs, sh, pm) ==
  hasApiKey(en, fs, sh, pm) /\ getApiKey(en, fs, sh, pm) # Null

\* clearCredentials that reports success only when the environment held a
\* credential
clearCredentials_FalseWhenAbsent(en, fs) ==
  [ret |-> Truthy(en[POSTMAN_API_KEY]) \/ Truthy(en[POSTMAN_WORKSPACE_ID]),
   env |-> [en EXCEPT ![POSTMAN_API_KEY] = Null,
                      ![POSTMAN_WORKSPACE_ID] = Null],
   files |-> fs]

\* CredentialStorage.clearCredentials
clearCredentials(en, fs) ==
  LET apiKeyRemoved == Truthy(removeEnvVariableCall(POSTMAN_API_KEY))
      workspaceIdRemoved == Truthy(removeEnvVariableCall(POSTMAN_WORKSPACE_ID))
  IN [ret |-> IF apiKeyRemoved /\ workspaceIdRemoved THEN TRUE
              ELSE IF apiKeyRemoved \/ workspaceIdRemoved THEN TRUE
              ELSE FALSE,
      env |-> [en EXCEPT ![POSTMAN_API_KEY] = Null,
                         ![POSTMAN_WORKSPACE_ID] = Null],
      files |-> fs]

\* storeCredentials, "success = this.storeWorkspaceId(workspaceId) && success":
\* s1 is the outcome of the step of the API key, s2 of the workspace id
StoreCredentialsSuccess(s1, s2) ==
  [ret |-> s2.ret /\ s1.ret, env |-> s2.env, files |-> s2.files]

\* storeCredentials from "if (workspaceId)" on
StoreCredentialsWorkspace(s1, sh, pm, workspaceId) ==
  IF Truthy(workspaceId)
    THEN StoreCredentialsSuccess(
           s1, storeWorkspaceId(s1.env, s1.files, sh, pm, workspaceId))
  ELSE s1

\* CredentialStorage.storeCredentials
storeCredentials(en, fs, sh, pm, apiKey, workspaceId) ==
  StoreCredentialsWorkspace(
    IF Truthy(apiKey) THEN storeApiKey(en, fs, sh, pm, apiKey)
    ELSE [ret |-> TRUE, env |-> en, files |-> fs],
    sh, pm, workspaceId)

\* ------------------------------------------------------------------------
\* Auth Coordinator
\* ------------------------------------------------------------------------

MaskChar == "*"

\* '*'.repeat(n)
RECURSIVE Repeat(_, _)
Repeat(c, n) == IF n <= 0 THEN <<>> ELSE <<c>> \o Repeat(c, n - 1)

\* maskApiKey that keeps nine characters at the start ( substring(0, 9) )
maskApiKey_NineShown(apiKey) ==
  IF ~Truthy(apiKey) \/ Len(apiKey) < 8 THEN Repeat(MaskChar, 4)
  ELSE SubSeq(apiKey, 1, IF Len(apiKey) < 9 THEN Len(apiKey) ELSE 9)
         \o Repeat(MaskChar, Len(apiKey) - 13)
         \o SubSeq(apiKey, (Len(apiKey) - 4) + 1, Len(apiKey))

\* AuthManager.maskApiKey
maskApiKey(apiKey) ==
  IF ~Truthy(apiKey) \/ Len(apiKey) < 8 THEN Repeat(MaskChar, 4)
  ELSE SubSeq(apiKey, 1, 8)
         \o Repeat(MaskChar, Len(apiKey) - 12)
         \o SubSeq(apiKey, (Len(apiKey) - 4) + 1, Len(apiKey))

\* AuthManager.getAuthStatus
getAuthStatus(en, fs, sh, pm) ==
  LET apiKey == getApiKey(en, fs, sh, pm)
      workspaceId == getWorkspaceId(en, fs, sh, pm)
      hasKey == Truthy(apiKey)
  IN [authenticated |-> hasKey,
      hasApiKey |-> hasKey,
      hasWorkspace |-> Truthy(workspaceId),
      apiKey |-> IF hasKey THEN maskApiKey(apiKey) ELSE Null,
      workspaceId |-> workspaceId]

\* what the remote validation collaborator does with a key: the service
\* accepts it, the service rejects it, or the request fails
RemoteOutcomes == {"valid", "rejected", "error"}

\* PostmanClient.validateApiKey: a rejection and a failed request both throw
\* inside the try block and come back as false
PostmanClient_validateApiKey(remote) == remote = "valid"

\* the collaborator raises an exception of its own: require('./postman-client')
\* fails, or the client throws outside its try block
PostmanClientThrows(remote) == remote = "raised"

\* validateCredentials without its try/catch: what the collaborator raises
\* goes up to the caller
validateCredentials_NoCatch(en, fs, sh, pm, remote) ==
  LET apiKey == getApiKey(en, fs, sh, pm)
  IN IF ~Truthy(apiKey)
       THEN [ret |-> FALSE, called |-> FALSE, key |-> Null, thrown |-> FALSE]
     ELSE [ret |-> PostmanClient_validateApiKey(remote),
           called |-> TRUE, key |-> apiKey,
           thrown |-> PostmanClientThrows(remote)]

\* AuthManager.validateCredentials: whether the remote service is called,
\* with which key, the value returned and whether an exception leaves the
\* method; the catch turns what the collaborator raises into false
validateCredentials(en, fs, sh, pm, remote) ==
  LET apiKey == getApiKey(en, fs, sh, pm)
  IN IF ~Truthy(apiKey)
       THEN [ret |-> FALSE, called |-> FALSE, key |-> Null, thrown |-> FALSE]
     ELSE [ret |-> IF PostmanClientThrows(remote) THEN FALSE
                   ELSE PostmanClient_validateApiKey(remote),
           called |-> TRUE, key |-> apiKey, thrown |-> FALSE]

\* CredentialStorage.validateStoredApiKey
validateStoredApiKey(en, fs, sh, pm) ==
  IF Truthy(getApiKey(en, fs, sh, pm))
    THEN validateApiKey(getApiKey(en, fs, sh, pm))
  ELSE FALSE

\* AuthManager.checkCredentialsHealth: it has no try/catch of its own
checkCredentialsHealth(en, fs, sh, pm, remote) ==
  IF ~isAuthenticated(en, fs, sh, pm)
    THEN [ret |-> FALSE, called |-> FALSE, key |-> Null, thrown |-> FALSE]
  ELSE IF ~validateStoredApiKey(en, fs, sh, pm)
    THEN [ret |-> FALSE, called |-> FALSE, key |-> Null, thrown |-> FALSE]
  ELSE validateCredentials(en, fs, sh, pm, remote)

\* refreshAuthStatus after checkCredentialsHealth has ended with h
RefreshChecked(h, en, fs, sh, pm) ==
  IF h.thrown
    THEN [ret |-> FALSE, env |-> en, files |-> fs, called |-> h.called,
          key |-> h.key, thrown |-> TRUE]
  ELSE IF ~h.ret /\ isAuthenticated(en, fs, sh, pm)
    THEN [ret |-> h.ret, env |-> clearCredentials(en, fs).env,
          files |-> clearCredentials(en, fs).files, called |-> h.called,
          key |-> h.key, thrown |-> FALSE]
  ELSE [ret |-> h.ret, env |-> en, files |-> fs, called |-> h.called,
        key |-> h.key, thrown |-> FALSE]

\* AuthManager.refreshAuthStatus: it has no try/catch of its own
refreshAuthStatus(en, fs, sh, pm, remote) ==
  RefreshChecked(checkCredentialsHealth(en, fs, sh, pm, remote),
                 en, fs, sh, pm)

\* authenticateWithApiKey, "if (!isValid)": the rollback, cl being the
\* outcome of clearCredentials and v of validateCredentials
AuthenticateRolledBack(v, cl) ==
  [ret |-> FALSE, env |-> cl.env, files |-> cl.files,
   called |-> v.called, key |-> v.key, thrown |-> FALSE]

\* authenticateWithApiKey after validateCredentials has ended with v; an
\* exception goes to the catch of authenticateWithApiKey, which returns
\* false
AuthenticateValidated(st, v) ==
  IF v.thrown
    THEN [ret |-> FALSE, env |-> st.env, files |-> st.files,
          called |-> v.called, key |-> v.key, thrown |-> FALSE]
  ELSE IF ~v.ret
    THEN AuthenticateRolledBack(v, clearCredentials(st.env, st.files))
  ELSE [ret |-> TRUE, env |-> st.env, files |-> st.files,
        called |-> v.called, key |-> v.key, thrown |-> FALSE]

\* authenticateWithApiKey after storeCredentials has returned st
AuthenticateStored(st, sh, pm, remote) ==
  IF ~st.ret
    THEN [ret |-> FALSE, env |-> st.env, files |-> st.files,
          called |-> FALSE, key |-> Null, thrown |-> FALSE]
  ELSE AuthenticateValidated(
         st, validateCredentials(st.env, st.files, sh, pm, remote))

\* AuthManager.authenticateWithApiKey
authenticateWithApiKey(en, fs, sh, pm, apiKey, workspaceId, remote) ==
  AuthenticateStored(storeCredentials(en, fs, sh, pm, apiKey, workspaceId),
                     sh, pm, remote)

\* AuthManager.logout
logout(en, fs) == clearCredentials(en, fs)

\* ------------------------------------------------------------------------
\* Inputs
\* ------------------------------------------------------------------------

\* "PMAK-0123456789abcde"
KeyA ==
  <<"P", "M", "A", "K", "-", "0", "1", "2", "3", "4", "5", "6", "7", "8",
    "9", "a", "b", "c", "d", "e">>

\* "PMAK-fedcba9876543210"
KeyB ==
  <<"P", "M", "A", "K", "-", "f", "e", "d", "c", "b", "a", "9", "8", "7",
    "6", "5", "4", "3", "2", "1", "0">>

\* "PMAK-0123456789abcd"
KeyShort ==
  <<"P", "M", "A", "K", "-", "0", "1", "2", "3", "4", "5", "6", "7", "8",
    "9", "a", "b", "c", "d">>

\* "XMAK-0123456789abcdef"
KeyNoPrefix ==
  <<"X", "M", "A", "K", "-", "0", "1", "2", "3", "4", "5", "6", "7", "8",
    "9", "a", "b", "c", "d", "e", "f">>

\* "PMAK-01234\"6789abcde"
KeyQuoted ==
  <<"P", "M", "A", "K", "-", "0", "1", "2", "3", "4", DQ, "6", "7", "8",
    "9", "a", "b", "c", "d", "e">>

\* "123e4567-e89b-42d3-a456-426614174000"
WorkspaceA ==
  <<"1", "2", "3", "e", "4", "5", "6", "7", "-", "e", "8", "9", "b", "-",
    "4", "2", "d", "3", "-", "a", "4", "5", "6", "-", "4", "2", "6", "6",
    "1", "4", "1", "7", "4", "0", "0", "0">>

\* "9F8E7D6C-5B4A-4321-8ABC-DEF012345678"
WorkspaceUpper ==
  <<"9", "F", "8", "E", "7", "D", "6", "C", "-", "5", "B", "4", "A", "-",
    "4", "3", "2", "1", "-", "8", "A", "B", "C", "-", "D", "E", "F", "0",
    "1", "2", "3", "4", "5", "6", "7", "8">>

\* "123e4567-e89b-62d3-a456-426614174000"
WorkspaceBadVersion ==
  <<"1", "2", "3", "e", "4", "5", "6", "7", "-", "e", "8", "9", "b", "-",
    "6", "2", "d", "3", "-", "a", "4", "5", "6", "-", "4", "2", "6", "6",
    "1", "4", "1", "7", "4", "0", "0", "0">>

\* "my-workspace"
WorkspaceNoUuid ==
  <<"m", "y", "-", "w", "o", "r", "k", "s", "p", "a", "c", "e">>

\* the keys handed to storeApiKey: well-formed ones, one character too
\* short, without the prefix, with a quote inside, empty, null, not a string
ApiKeyInputs ==
  {KeyA, KeyShort, KeyNoPrefix, KeyQuoted, <<>>, Null, NotString}

WorkspaceIdInputs ==
  {WorkspaceUpper, WorkspaceBadVersion, WorkspaceNoUuid, <<>>, Null, NotString}

\* the arguments handed to authenticateWithApiKey
AuthKeyInputs == {KeyB, KeyShort, Null}
AuthWorkspaceInputs == {Null, WorkspaceA, WorkspaceNoUuid}

\* the values handed to writeEnvVariable directly
ValueInputs ==
  {<<"a">>, <<"a", " ", "b">>, <<" ", "a">>, <<>>, <<"a", DQ, "b">>}

\* a block as writeEnvVariable leaves it in the file of shell sh
Block(sh, variableName, value, comment) ==
  AppendBlock(<<>>, comment, ExportLine(sh, variableName, value))

NoFiles == [p \in Paths |-> Null]

NoEnv == [n \in EnvNames |-> Null]

\* number of operations of one run
MaxOps == 2

NoOp ==
  [op |-> "none", name |-> Null, value |-> Null, workspaceId |-> Null,
   overwrite |-> TRUE, remote |-> "none", ret |-> FALSE, out |-> Null,
   called |-> FALSE, key |-> Null, thrown |-> FALSE, declined |-> FALSE,
   cancelled |-> FALSE]

\* two invocations of the tool on one machine
Procs == {1, 2}

\* an invocation that is not inside writeEnvVariable
IdleProc ==
  [pc |-> "idle", path |-> "", name |-> Null, value |-> Null,
   overwrite |-> TRUE, newContent |-> Null]

NoProcs == [p \in Procs |-> IdleProc]

\* ------------------------------------------------------------------------
\* Initial states
\* ------------------------------------------------------------------------

\* the canonical config file of a shell when no candidate exists yet
Primary(sh) == getShellConfigPath(NoFiles, sh)

\* the candidate files of shell sh: c in the primary one and, for the shells
\* that have it as a later candidate, c2 in .profile
FilesOf(sh, c, c2) ==
  [p \in Paths |->
     IF p = Primary(sh) THEN c
     ELSE IF p = ".profile" /\ sh \in {"bash", "zsh"} THEN c2
     ELSE Null]

\* what the primary config file holds when the process starts: no file,
\* the user's own text without a final newline, the block of an earlier
\* login, the blocks of an earlier login with a workspace
CredentialContents(sh) ==
  {Null,
   <<"#", " ", "user">>,
   Block(sh, POSTMAN_API_KEY, KeyA, ApiKeyComment),
   AppendBlock(Block(sh, POSTMAN_API_KEY, KeyA, ApiKeyComment),
               WorkspaceIdComment,
               ExportLine(sh, POSTMAN_WORKSPACE_ID, WorkspaceA))}

\* what .profile holds when it is a later candidate
ProfileContents(sh) ==
  IF sh \in {"bash", "zsh"}
    THEN {Null, Block(sh, POSTMAN_API_KEY, KeyB, ApiKeyComment)}
  ELSE {Null}

\* process.env when the process starts: neither credential, an empty API
\* key entry, the key and the workspace of an earlier login
InitEnvs ==
  {NoEnv,
   [NoEnv EXCEPT ![POSTMAN_API_KEY] = <<>>],
   [NoEnv EXCEPT ![POSTMAN_API_KEY] = KeyA,
                 ![POSTMAN_WORKSPACE_ID] = WorkspaceA]}

\* the shells whose initial states are enumerated in full; the other shells
\* share their patterns or refuse every write
FullShells == {"bash", "fish", "powershell"}

Init ==
  /\ \/ /\ shell \in FullShells
        /\ perm = "rw"
        /\ env \in InitEnvs
        /\ \E c \in CredentialContents(shell), c2 \in ProfileContents(shell) :
             files = FilesOf(shell, c, c2)
     \/ /\ shell \in Shells \ FullShells
        /\ perm = "rw"
        /\ env \in {NoEnv, [NoEnv EXCEPT ![POSTMAN_API_KEY] = KeyA,
                                         ![POSTMAN_WORKSPACE_ID] = WorkspaceA]}
        /\ \E c \in {Null, Block(shell, POSTMAN_API_KEY, KeyA, ApiKeyComment)} :
             files = FilesOf(shell, c, Null)
     \/ /\ shell \in {"bash", "fish"}
        /\ perm \in {"ro", "none"}
        /\ env \in {NoEnv, [NoEnv EXCEPT ![POSTMAN_API_KEY] = KeyA]}
        /\ \E c \in {Null, Block(shell, POSTMAN_API_KEY, KeyA, ApiKeyComment)} :
             files = FilesOf(shell, c, Null)
  /\ last = NoOp
  /\ nops = 0
  /\ procs = NoProcs

\* the value of the line that the user's own file holds for a name; no write
\* of the model uses these values
HandValue(variableName) ==
  CASE variableName = API_KEY -> <<"k">>
    [] variableName = API_KEY_SECONDARY -> <<"s">>
    [] OTHER -> <<"m">>

\* an assignment without a value, written by hand, with a space left at the
\* end of the line: export NAME= / set -gx NAME / $env:NAME =
HandWrittenEmpty(sh, variableName) ==
  CASE sh = "fish" -> <<"set", " ", "-gx", " ">> \o variableName \o <<" ">>
    [] sh = "powershell" ->
         <<"$env:">> \o variableName \o <<" ", "=", " ">>
    [] OTHER -> <<"export", " ">> \o variableName \o <<"=", " ">>

\* the primary config file for the operations on the Config File Store: no
\* file, an empty file, the user's text without a final newline, a block for
\* a longer name, a hand-written indented line for a name that ends with
\* API_KEY followed by blank lines and more text, blocks for two names, an
\* assignment without a value followed by the line of another name, the
\* user's text with two blank lines in it followed by the line of a name
StoreContents(sh) ==
  {Null,
   <<>>,
   <<"#", " ", "user">>,
   Block(sh, API_KEY_SECONDARY, HandValue(API_KEY_SECONDARY), DefaultComment),
   <<" ", " ">> \o ExportLine(sh, MY_API_KEY, HandValue(MY_API_KEY))
     \o <<NL, NL, NL, " ", "alias", NL>>,
   AppendBlock(Block(sh, API_KEY, HandValue(API_KEY), DefaultComment),
               DefaultComment,
               ExportLine(sh, API_KEY_SECONDARY,
                          HandValue(API_KEY_SECONDARY))),
   HandWrittenEmpty(sh, API_KEY) \o <<NL>>
     \o ExportLine(sh, API_KEY_SECONDARY, HandValue(API_KEY_SECONDARY))
     \o <<NL>>,
   <<"#", " ", "user", NL, NL, NL, " ", "alias", NL>>
     \o ExportLine(sh, API_KEY, HandValue(API_KEY)) \o <<NL>>}

InitStore ==
  /\ \/ /\ shell \in FullShells
        /\ perm = "rw"
        /\ \E v \in {Null, <<>>, <<"b">>} : env = [NoEnv EXCEPT ![API_KEY] = v]
        /\ \E c \in StoreContents(shell) : files = FilesOf(shell, c, Null)
     \/ /\ shell \in Shells \ FullShells
        /\ perm = "rw"
        /\ \E v \in {Null, <<"b">>} : env = [NoEnv EXCEPT ![API_KEY] = v]
        /\ \E c \in {Null,
                     Block(shell, API_KEY, HandValue(API_KEY), DefaultComment)} :
             files = FilesOf(shell, c, Null)
     \/ /\ shell \in {"bash", "fish"}
        /\ perm \in {"ro", "none"}
        /\ env = NoEnv
        /\ \E c \in {Null,
                     Block(shell, API_KEY, HandValue(API_KEY), DefaultComment)} :
             files = FilesOf(shell, c, Null)
  /\ last = NoOp
  /\ nops = 0
  /\ procs = NoProcs

\* ------------------------------------------------------------------------
\* Operations
\* ------------------------------------------------------------------------

\* ConfigFileManager.writeEnvVariable(variableName, value, {overwrite})
WriteEnvVariable(variableName, value, overwrite) ==
  /\ nops < MaxOps
  /\ \E r \in {writeEnvVariable(files, shell, perm, variableName, value,
                               DefaultComment, overwrite)} :
        /\ files' = r.files
        /\ last' = [NoOp EXCEPT !.op = "writeEnvVariable",
                                !.name = variableName, !.value = value,
                                !.overwrite = overwrite, !.ret = r.ret]
  /\ nops' = nops + 1
  /\ UNCHANGED <<shell, perm, env, procs>>

\* ConfigFileManager.readEnvVariable(variableName)
ReadEnvVariable(variableName) ==
  /\ nops < MaxOps
  /\ last' = [NoOp EXCEPT !.op = "readEnvVariable", !.name = variableName,
                          !.out = readEnvVariable(env, files, shell, perm,
                                                  variableName),
                          !.ret = TRUE]
  /\ nops' = nops + 1
  /\ UNCHANGED <<shell, perm, env, files, procs>>

\* ConfigFileManager.removeEnvVariable(variableName)
RemoveEnvVariable(variableName) ==
  /\ nops < MaxOps
  /\ last' = [NoOp EXCEPT !.op = "removeEnvVariable", !.name = variableName,
                          !.out = removeEnvVariableCall(variableName),
                          !.ret = Truthy(removeEnvVariableCall(variableName))]
  /\ nops' = nops + 1
  /\ UNCHANGED <<shell, perm, env, files, procs>>

\* CredentialStorage.storeApiKey(apiKey)
StoreApiKey(apiKey) ==
  /\ nops < MaxOps
  /\ \E r \in {storeApiKey(env, files, shell, perm, apiKey)} :
        /\ env' = r.env
        /\ files' = r.files
        /\ last' = [NoOp EXCEPT !.op = "storeApiKey", !.value = apiKey,
                                !.ret = r.ret]
  /\ nops' = nops + 1
  /\ UNCHANGED <<shell, perm, procs>>

\* CredentialStorage.storeWorkspaceId(workspaceId)
StoreWorkspaceId(workspaceId) ==
  /\ nops < MaxOps
  /\ \E r \in {storeWorkspaceId(env, files, shell, perm, workspaceId)} :
        /\ env' = r.env
        /\ files' = r.files
        /\ last' = [NoOp EXCEPT !.op = "storeWorkspaceId",
                                !.workspaceId = workspaceId, !.ret = r.ret]
  /\ nops' = nops + 1
  /\ UNCHANGED <<shell, perm, procs>>

\* CredentialStorage.clearCredentials()
ClearCredentials ==
  /\ nops < MaxOps
  /\ \E r \in {clearCredentials(env, files)} :
        /\ env' = r.env
        /\ files' = r.files
        /\ last' = [NoOp EXCEPT !.op = "clearCredentials", !.ret = r.ret]
  /\ nops' = nops + 1
  /\ UNCHANGED <<shell, perm, procs>>

\* AuthManager.authenticateWithApiKey(apiKey, workspaceId), the remote
\* service answering with remote
AuthenticateWithApiKey(apiKey, workspaceId, remote) ==
  /\ nops < MaxOps
  /\ \E r \in {authenticateWithApiKey(env, files, shell, perm, apiKey,
                                     workspaceId, remote)} :
        /\ env' = r.env
        /\ files' = r.files
        /\ last' = [NoOp EXCEPT !.op = "authenticateWithApiKey",
                                !.value = apiKey,
                                !.workspaceId = workspaceId,
                                !.remote = remote, !.ret = r.ret,
                                !.called = r.called, !.key = r.key,
                                !.thrown = r.thrown]
  /\ nops' = nops + 1
  /\ UNCHANGED <<shell, perm, procs>>

\* AuthManager.validateCredentials(), the remote service answering with
\* remote
ValidateCredentials(remote) ==
  /\ nops < MaxOps
  /\ \E r \in {validateCredentials(env, files, shell, perm, remote)} :
        last' = [NoOp EXCEPT !.op = "validateCredentials",
                             !.remote = remote, !.ret = r.ret,
                             !.called = r.called, !.key = r.key,
                             !.thrown = r.thrown]
  /\ nops' = nops + 1
  /\ UNCHANGED <<shell, perm, env, files, procs>>

\* AuthManager.checkCredentialsHealth()
CheckCredentialsHealth(remote) ==
  /\ nops < MaxOps
  /\ \E r \in {checkCredentialsHealth(env, files, shell, perm, remote)} :
        last' = [NoOp EXCEPT !.op = "checkCredentialsHealth",
                             !.remote = remote, !.ret = r.ret,
                             !.called = r.called, !.key = r.key,
                             !.thrown = r.thrown]
  /\ nops' = nops + 1
  /\ UNCHANGED <<shell, perm, env, files, procs>>

\* AuthManager.refreshAuthStatus()
RefreshAuthStatus(remote) ==
  /\ nops < MaxOps
  /\ \E r \in {refreshAuthStatus(env, files, shell, perm, remote)} :
        /\ env' = r.env
        /\ files' = r.files
        /\ last' = [NoOp EXCEPT !.op = "refreshAuthStatus",
                                !.remote = remote, !.ret = r.ret,
                                !.called = r.called, !.key = r.key,
                                !.thrown = r.thrown]
  /\ nops' = nops + 1
  /\ UNCHANGED <<shell, perm, procs>>

\* AuthManager.logout()
Logout ==
  /\ nops < MaxOps
  /\ \E r \in {logout(env, files)} :
        /\ env' = r.env
        /\ files' = r.files
        /\ last' = [NoOp EXCEPT !.op = "logout", !.ret = r.ret]
  /\ nops' = nops + 1
  /\ UNCHANGED <<shell, perm, procs>>

\* ------------------------------------------------------------------------
\* Specifications
\* ------------------------------------------------------------------------

\* the answers of the remote service worth telling apart for a login: with
\* an input a validator refuses, storeCredentials fails, the client is never
\* built and one answer stands for all
RemoteAnswers(apiKey, workspaceId) ==
  IF (Truthy(apiKey) => validateApiKey(apiKey))
       /\ (Truthy(workspaceId) => validateWorkspaceId(workspaceId))
    THEN RemoteOutcomes
  ELSE {"valid"}

\* the Credential Store and the Auth Coordinator
Next ==
  \/ \E k \in ApiKeyInputs : StoreApiKey(k)
  \/ \E w \in WorkspaceIdInputs : StoreWorkspaceId(w)
  \/ ClearCredentials
  \/ \E k \in AuthKeyInputs, w \in AuthWorkspaceInputs :
       \E r \in RemoteAnswers(k, w) : AuthenticateWithApiKey(k, w, r)
  \/ Logout

Spec == Init /\ [][Next]_vars

\* the Config File Store used directly
NextStore ==
  \/ \E n \in StoreNames, v \in ValueInputs, o \in BOOLEAN :
       WriteEnvVariable(n, v, o)
  \/ \E n \in StoreNames : ReadEnvVariable(n)
  \/ \E n \in StoreNames : RemoveEnvVariable(n)

SpecStore == InitStore /\ [][NextStore]_vars

\* what the remote validation collaborator can do, an exception of its own
\* included
RemoteFailures == RemoteOutcomes \cup {"raised"}

\* as RemoteAnswers: one answer stands for all when the login never reaches
\* the collaborator
RemoteFailureAnswers(apiKey, workspaceId) ==
  IF RemoteAnswers(apiKey, workspaceId) = RemoteOutcomes THEN RemoteFailures
  ELSE {"valid"}

\* the Auth Coordinator and its remote validation collaborator; logins are
\* without a workspace id ( workspaceId = null, the default )
NextAuth ==
  \/ \E k \in AuthKeyInputs :
       \E r \in RemoteFailureAnswers(k, Null) :
         AuthenticateWithApiKey(k, Null, r)
  \/ \E r \in RemoteFailures : ValidateCredentials(r)
  \/ \E r \in RemoteFailures : CheckCredentialsHealth(r)
  \/ \E r \in RemoteFailures : RefreshAuthStatus(r)
  \/ Logout

SpecAuth == Init /\ [][NextAuth]_vars

\* the keys handed to maskApiKey: null and every string of at most MaxKeyLen
\* characters over an ordinary character and the mask character
MaxKeyLen == 13
KeyChars == {"k", MaskChar}
MaskInputs == {Null} \cup UNION {[1..n -> KeyChars] : n \in 0..MaxKeyLen}

\* a process about to mask a key
InitMask ==
  /\ shell = "bash"
  /\ perm = "rw"
  /\ env = NoEnv
  /\ files = NoFiles
  /\ \E k \in MaskInputs : last = [NoOp EXCEPT !.value = k]
  /\ nops = 0
  /\ procs = NoProcs

\* AuthManager.maskApiKey(apiKey), apiKey being the key of the process
MaskApiKey ==
  /\ nops < MaxOps
  /\ last' = [last EXCEPT !.op = "maskApiKey",
                          !.out = maskApiKey(last.value)]
  /\ nops' = nops + 1
  /\ UNCHANGED <<shell, perm, env, files, procs>>

NextMask == MaskApiKey

SpecMask == InitMask /\ [][NextMask]_vars

\* ------------------------------------------------------------------------
\* Shell detection
\* ------------------------------------------------------------------------

\* process.env.SHELL: unset, empty, paths of the listed shells, a bare
\* name, a path that ends with a separator, the root, names the tables do
\* not list, and a name that every object inherits
ShellEnvInputs ==
  {Null, <<>>,
   <<"/", "bin", "/", "bash">>, <<"/", "usr", "/", "bin", "/", "zsh">>,
   <<"/", "usr", "/", "bin", "/", "fish">>, <<"powershell">>, <<"cmd">>,
   <<"bash">>, <<"/", "bin", "/", "bash", "/">>, <<"/">>,
   <<"/", "bin", "/", "tcsh">>, <<"/", "bin", "/", "sh">>,
   <<"/", "usr", "/", "bin", "/", "pwsh">>,
   <<"/", "opt", "/", "bin", "/", "constructor">>}

\* a process on some platform with some SHELL, the home directory without
\* a config file, with a .profile, or with a .profile and a .bashrc
InitShell ==
  /\ \E v \in ShellEnvInputs, pl \in {"win32", "darwin", "linux"} :
        /\ shell = detectShell(v, pl)
        /\ last = [NoOp EXCEPT !.value = v, !.name = <<pl>>]
  /\ perm = "rw"
  /\ env = NoEnv
  /\ files \in {NoFiles,
                [NoFiles EXCEPT ![".profile"] = <<"#", " ", "user">>],
                [NoFiles EXCEPT ![".profile"] = <<"#", " ", "user">>,
                                ![".bashrc"] = <<>>]}
  /\ nops = 0
  /\ procs = NoProcs

\* ShellDetector.getShellConfigPath()
GetShellConfigPath ==
  /\ nops < MaxOps
  /\ last' = [last EXCEPT !.op = "getShellConfigPath",
                          !.out = <<getShellConfigPath(files, shell)>>]
  /\ nops' = nops + 1
  /\ UNCHANGED <<shell, perm, env, files, procs>>

\* ShellDetector.getExportSyntax()
GetExportSyntax ==
  /\ nops < MaxOps
  /\ last' = [last EXCEPT !.op = "getExportSyntax",
                          !.out = getExportSyntax(shell)]
  /\ nops' = nops + 1
  /\ UNCHANGED <<shell, perm, env, files, procs>>

NextShell == GetShellConfigPath \/ GetExportSyntax

SpecShell == InitShell /\ [][NextShell]_vars

\* ------------------------------------------------------------------------
\* Reads over several candidate files
\* ------------------------------------------------------------------------

\* the primary config file for the reads: no file, the user's text, a block
\* for the name, a line for the name without a value, two lines for the name
ReadContents(sh) ==
  {Null,
   <<"#", " ", "user">>,
   Block(sh, API_KEY, HandValue(API_KEY), DefaultComment),
   ExportLine(sh, API_KEY, <<>>) \o <<NL>>,
   ExportLine(sh, API_KEY, <<"x">>) \o <<NL>>
     \o ExportLine(sh, API_KEY, HandValue(API_KEY)) \o <<NL>>}

\* every shell, readable or unreadable files, process.env without the name,
\* with an empty value or with a value, and for bash and zsh a .profile that
\* may hold a line of its own for the name
InitRead ==
  /\ shell \in Shells
  /\ perm \in {"rw", "none"}
  /\ \E v \in {Null, <<>>, <<"b">>} : env = [NoEnv EXCEPT ![API_KEY] = v]
  /\ \E c \in ReadContents(shell),
        c2 \in {Null, Block(shell, API_KEY, <<"p">>, DefaultComment)} :
       files = FilesOf(shell, c, c2)
  /\ last = NoOp
  /\ nops = 0
  /\ procs = NoProcs

NextRead == \E n \in StoreNames : ReadEnvVariable(n)

SpecRead == InitRead /\ [][NextRead]_vars

\* ------------------------------------------------------------------------
\* Two invocations at once
\* ------------------------------------------------------------------------

\* one .bashrc or config.fish writable by both processes: no file, the
\* user's text, a block for the name
InitRace ==
  /\ shell \in {"bash", "fish"}
  /\ perm = "rw"
  /\ env = NoEnv
  /\ \E c \in {Null, <<"#", " ", "user">>,
               Block(shell, API_KEY, HandValue(API_KEY), DefaultComment)} :
       files = FilesOf(shell, c, Null)
  /\ last = NoOp
  /\ nops = 0
  /\ procs = NoProcs

\* writeEnvVariable, lines 81-110: newContent computed from the content
\* read, or Null when the call returns true on "already exists"
NewContentOf(content, sh, variableName, value, overwrite) ==
  IF extractEnvVariable(content, variableName, sh) # Null
    THEN IF ~overwrite THEN Null
         ELSE AppendBlock(removeEnvVariable(content, variableName, sh),
                          DefaultComment, ExportLine(sh, variableName, value))
  ELSE AppendBlock(content, DefaultComment,
                   ExportLine(sh, variableName, value))

\* write(fd, data) at offset 0 of a file that holds old: data, then what old
\* holds beyond the length of data
WriteAtStart(old, data) == data \o SubSeq(old, Len(data) + 1, Len(old))

\* process p calls writeEnvVariable(variableName, value, {overwrite}):
\* lines 50-63, the shell supports persistence and configPath is chosen
CallWrite(p, variableName, value, overwrite) ==
  /\ nops < MaxOps
  /\ procs[p].pc \in {"idle", "done"}
  /\ supportsEnvPersistence(shell)
  /\ procs' = [procs EXCEPT ![p] =
                 [pc |-> "read", path |-> getShellConfigPath(files, shell),
                  name |-> variableName, value |-> value,
                  overwrite |-> overwrite, newContent |-> Null]]
  /\ nops' = nops + 1
  /\ UNCHANGED <<shell, perm, env, files, last>>

\* process p runs lines 72-110: fs.existsSync, fs.readFileSync, and the
\* new content computed in memory
ReadConfig(p) ==
  /\ procs[p].pc = "read"
  /\ \E out \in {NewContentOf(IF files[procs[p].path] # Null
                                THEN files[procs[p].path] ELSE <<>>,
                              shell, procs[p].name, procs[p].value,
                              procs[p].overwrite)} :
       procs' = [procs EXCEPT ![p].pc = IF out = Null THEN "done" ELSE "open",
                              ![p].newContent = out]
  /\ UNCHANGED <<shell, perm, env, files, last, nops>>

\* process p enters fs.writeFileSync (line 113): the file is opened with
\* flag 'w', which creates it or truncates it to length 0
OpenConfig(p) ==
  /\ procs[p].pc = "open"
  /\ files' = [files EXCEPT ![procs[p].path] = <<>>]
  /\ procs' = [procs EXCEPT ![p].pc = "write"]
  /\ UNCHANGED <<shell, perm, env, last, nops>>

\* process p ends fs.writeFileSync: the data are written from offset 0 of
\* its file descriptor and the call returns true
WriteConfig(p) ==
  /\ procs[p].pc = "write"
  /\ files' = [files EXCEPT ![procs[p].path] =
                 WriteAtStart(files[procs[p].path], procs[p].newContent)]
  /\ procs' = [procs EXCEPT ![p].pc = "done"]
  /\ last' = [NoOp EXCEPT !.op = "writeEnvVariable", !.name = procs[p].name,
                          !.value = procs[p].value,
                          !.overwrite = procs[p].overwrite,
                          !.out = procs[p].newContent, !.ret = TRUE]
  /\ UNCHANGED <<shell, perm, env, nops>>

RaceValues == {<<"a">>, <<"a", " ", "b">>}

NextRace ==
  \/ \E p \in Procs, v \in RaceValues, o \in BOOLEAN :
       CallWrite(p, API_KEY, v, o)
  \/ \E p \in Procs : ReadConfig(p)
  \/ \E p \in Procs : OpenConfig(p)
  \/ \E p \in Procs : WriteConfig(p)

SpecRace == InitRace /\ [][NextRace]_vars

TypeOK ==
  /\ shell \in Shells
  /\ perm \in {"rw", "ro", "none"}
  /\ DOMAIN env = EnvNames
  /\ DOMAIN files = Paths
  /\ nops \in 0..MaxOps

\* ------------------------------------------------------------------------
\* Properties
\* ------------------------------------------------------------------------

\* the content of the canonical config file (Null when it does not exist)
ConfigContent(fs) == fs[getShellConfigPath(fs, shell)]

\* what a fresh process, whose environment holds none of the names, reads
FreshRead(fs, variableName) ==
  readEnvVariable(NoEnv, fs, shell, perm, variableName)

\* number of assignment lines for a name in a text, from line start i on:
\* the matches of the remove pattern
RECURSIVE CountLines(_, _, _, _)
CountLines(s, i, name, sh) ==
  LET e == RemoveEndAt(s, i, name, sh)
  IN IF s = Null \/ i > Len(s) THEN 0
     ELSE IF e # 0 THEN 1 + CountLines(s, e + 1, name, sh)
     ELSE CountLines(s, LineEnd(s, i) + 1, name, sh)

\* a value a shell line can carry between double quotes as it is: not
\* empty, no quote character, no newline
ValidValue(v) ==
  /\ v # <<>>
  /\ \A i \in 1..Len(v) : ~IsQuote(v[i]) /\ v[i] # NL

C4_Removal ==
  [][(/\ last.op = "writeEnvVariable"
      /\ last.ret
      /\ ValidValue(last.value)
      /\ last'.op = "removeEnvVariable"
      /\ last'.name = last.name)
     => /\ FreshRead(files', last'.name) = Null
        /\ CountLines(ConfigContent(files'), 1, last'.name, shell) = 0]_vars

\* C6 as stated: after successive successful writes of one name with
\* overwrite enabled the config file holds exactly one assignment line for
\* the name, and a read from the files returns the value written last.
C6_UpdateReplaces ==
  [][(/\ last.op = "writeEnvVariable"
      /\ last.ret
      /\ last.overwrite
      /\ last'.op = "writeEnvVariable"
      /\ last'.ret
      /\ last'.overwrite
      /\ last'.name = last.name)
     => /\ CountLines(ConfigContent(files'), 1, last'.name, shell) = 1
        /\ FreshRead(files', last'.name) = last'.value]_vars

\* C7 as stated: a write of a valid value, a read or a removal of one name
\* leaves what the files hold for every other name as it was, and a read of
\* one name never returns the value that only the line of another name
\* carries.
C7_Isolation ==
  [][(/\ last'.op \in {"writeEnvVariable", "readEnvVariable",
                       "removeEnvVariable"}
      /\ last'.op = "writeEnvVariable" => ValidValue(last'.value)
      /\ nops' = nops + 1)
     => /\ \A n2 \in StoreNames \ {last'.name} :
             FreshRead(files', n2) = FreshRead(files, n2)
        /\ last'.op = "readEnvVariable"
             => \A n2 \in StoreNames \ {last'.name} :
                  last'.out # HandValue(n2)]_vars

\* the status of the current state
Status == getAuthStatus(env, files, shell, perm)

\* some candidate config file holds an assignment line for the name
HoldsLine(fs, variableName) ==
  \E p \in Paths :
    fs[p] # Null /\ CountLines(fs[p], 1, variableName, shell) > 0

\* a key that storeApiKey has to refuse: empty, not a string, without the
\* PMAK- prefix, or shorter than 20 characters
RefusedKey(k) ==
  \/ k \in {<<>>, Null, NotString}
  \/ Len(k) < 5
  \/ <<k[1], k[2], k[3], k[4], k[5]>> # <<"P", "M", "A", "K", "-">>
  \/ Len(k) < 20

\* a workspace id that storeWorkspaceId has to refuse: not UUID-shaped
RefusedWorkspaceId(w) ==
  w \in {<<>>, Null, NotString, WorkspaceNoUuid, WorkspaceBadVersion}

\* C2 as stated: when authenticateWithApiKey is called with a format-valid
\* key and the remote service rejects it, the call returns false, getApiKey()
\* returns null afterwards and no config file holds a line for
\* POSTMAN_API_KEY.
C2_Rollback ==
  (/\ last.op = "authenticateWithApiKey"
   /\ ~RefusedKey(last.value)
   /\ last.called
   /\ last.remote = "rejected")
  => /\ ~last.ret
     /\ getApiKey(env, files, shell, perm) = Null
     /\ ~HoldsLine(files, POSTMAN_API_KEY)

\* C3 as stated: when authenticateWithApiKey(apiKey, workspaceId) returns
\* false, no credential of the call is in the environment or in a config
\* file afterwards unless it was there before the call.
C3_NoWriteLeftStanding ==
  [][(last'.op = "authenticateWithApiKey" /\ nops' = nops + 1 /\ ~last'.ret)
     => /\ Truthy(last'.value)
          => /\ env'[POSTMAN_API_KEY] = last'.value
                  => env[POSTMAN_API_KEY] = last'.value
             /\ FreshRead(files', POSTMAN_API_KEY) = last'.value
                  => FreshRead(files, POSTMAN_API_KEY) = last'.value
        /\ Truthy(last'.workspaceId)
          => /\ env'[POSTMAN_WORKSPACE_ID] = last'.workspaceId
                  => env[POSTMAN_WORKSPACE_ID] = last'.workspaceId
             /\ FreshRead(files', POSTMAN_WORKSPACE_ID) = last'.workspaceId
                  => FreshRead(files, POSTMAN_WORKSPACE_ID)
                       = last'.workspaceId]_vars

\* C5 as stated: after logout() neither the environment nor a config file
\* yields an API key or a workspace id, and getAuthStatus().authenticated is
\* false.
C5_LogoutClears ==
  last.op = "logout"
  => /\ ~Status.authenticated
     /\ getApiKey(env, files, shell, perm) = Null
     /\ getWorkspaceId(env, files, shell, perm) = Null
     /\ ~HoldsLine(files, POSTMAN_API_KEY)
     /\ ~HoldsLine(files, POSTMAN_WORKSPACE_ID)

\* C8: storeApiKey of a key that is empty, not a string, without the PMAK-
\* prefix or shorter than 20 characters returns false and changes neither
\* the files nor the environment; storeWorkspaceId does the same for an id
\* that is not UUID-shaped; storeApiKey of a PMAK- key of 20 characters or
\* more succeeds when the shell has a config file and it can be written.
C8_ValidationGate ==
  [][/\ (last'.op = "storeApiKey" /\ nops' = nops + 1
           /\ RefusedKey(last'.value))
          => (~last'.ret /\ files' = files /\ env' = env)
     /\ (last'.op = "storeWorkspaceId" /\ nops' = nops + 1
           /\ RefusedWorkspaceId(last'.workspaceId))
          => (~last'.ret /\ files' = files /\ env' = env)
     /\ (last'.op = "storeApiKey" /\ nops' = nops + 1
           /\ ~RefusedKey(last'.value)
           /\ perm = "rw" /\ Len(getAllShellConfigPaths(shell)) > 0)
          => (/\ last'.ret
              /\ env'[POSTMAN_API_KEY] = last'.value
              /\ HoldsLine(files', POSTMAN_API_KEY))]_vars

\* a key one character short of the minimum has been refused
C8_Witness ==
  /\ last.op = "storeApiKey"
  /\ last.value = KeyShort
  /\ ~last.ret
  /\ perm = "rw"
  /\ shell = "bash"

\* C9: in every state getAuthStatus().authenticated, isAuthenticated() and
\* getApiKey() != null agree, and getAuthStatus().apiKey is non-null exactly
\* when authenticated is true.
C9_AuthenticatedInvariant ==
  \E st \in {Status} :
    /\ st.authenticated = isAuthenticated(env, files, shell, perm)
    /\ st.authenticated = (getApiKey(env, files, shell, perm) # Null)
    /\ (st.apiKey # Null) = st.authenticated

\* a login has succeeded and the three views report it
C9_Witness ==
  /\ last.op = "authenticateWithApiKey"
  /\ last.ret
  /\ Status.authenticated
  /\ isAuthenticated(env, files, shell, perm)
  /\ Status.apiKey # Null

\* the Unauthenticated state: neither the environment nor a candidate config
\* file yields an API key or a workspace id
Unauthenticated(en, fs) ==
  /\ ~Truthy(getApiKey(en, fs, shell, perm))
  /\ ~Truthy(getWorkspaceId(en, fs, shell, perm))

\* C10 as stated: logout() called in the Unauthenticated state returns true,
\* makes no remote call and changes neither a config file nor the
\* environment; a second logout() in a row leaves the state of the first.
C10_LogoutIdempotentAsStated ==
  [][(last'.op = "logout" /\ nops' = nops + 1)
     => /\ Unauthenticated(env, files)
          => (/\ last'.ret
              /\ ~last'.called
              /\ files' = files
              /\ env' = env)
        /\ last.op = "logout" => (files' = files /\ env' = env)]_vars

\* C10 amended: logout() called in the Unauthenticated state returns true,
\* makes no remote call, changes no config file and changes no non-empty
\* value of the environment (it deletes an entry of a credential name that
\* is set to the empty string) and leaves the state Unauthenticated; a
\* second logout() in a row leaves files and environment exactly as the
\* first left them.
C10_LogoutIdempotent ==
  [][(last'.op = "logout" /\ nops' = nops + 1)
     => /\ Unauthenticated(env, files)
          => (/\ last'.ret
              /\ ~last'.called
              /\ files' = files
              /\ \A n \in EnvNames :
                   /\ Truthy(env[n]) => env'[n] = env[n]
                   /\ ~Truthy(env[n])
                        => env'[n] = (IF n \in CredentialNames THEN Null
                                      ELSE env[n])
              /\ Unauthenticated(env', files'))
        /\ last.op = "logout" => (files' = files /\ env' = env)]_vars

\* logout() has run twice in a row in the Unauthenticated state
C10_Witness ==
  /\ last.op = "logout"
  /\ last.ret
  /\ nops = 2
  /\ Unauthenticated(env, files)
  /\ env[POSTMAN_API_KEY] = Null
  /\ env[POSTMAN_WORKSPACE_ID] = Null

\* C11 as stated: clearCredentials() returns true exactly when one of its two
\* removals changed a config file, and false when neither credential
\* existed in a config file or in the environment.
C11_ClearResult ==
  [][(last'.op = "clearCredentials" /\ nops' = nops + 1)
     => /\ last'.ret = (files' # files)
        /\ (/\ ~HoldsLine(files, POSTMAN_API_KEY)
            /\ ~HoldsLine(files, POSTMAN_WORKSPACE_ID)
            /\ env[POSTMAN_API_KEY] = Null
            /\ env[POSTMAN_WORKSPACE_ID] = Null)
             => ~last'.ret]_vars

\* C12 as stated: removeEnvVariable(name) leaves the files as they are when
\* the canonical config file holds no line for the name (and creates no
\* file), and its result tells whether a line was removed.
C12_RemoveNeverWritten ==
  [][(last'.op = "removeEnvVariable" /\ nops' = nops + 1)
     => /\ CountLines(ConfigContent(files), 1, last'.name, shell) = 0
             => files' = files
        /\ last'.ret
             = (CountLines(ConfigContent(files), 1, last'.name, shell) > 0)]_vars

\* C13: for a key of 12 characters or more maskApiKey returns a string of
\* the same length with the first 8 and the last 4 characters of the key
\* and the mask character everywhere between; for a key shorter than 8
\* characters, empty or null it returns "****".
C13_Masking ==
  last.op = "maskApiKey"
  => /\ (last.value # Null /\ Len(last.value) >= 12)
          => /\ Len(last.out) = Len(last.value)
             /\ \A i \in 1..8 : last.out[i] = last.value[i]
             /\ \A i \in (Len(last.value) - 3)..Len(last.value) :
                  last.out[i] = last.value[i]
             /\ \A i \in 9..(Len(last.value) - 4) : last.out[i] = "*"
     /\ (last.value = Null \/ Len(last.value) < 8)
          => last.out = <<"*", "*", "*", "*">>

\* a key of 13 ordinary characters has been masked: one character is hidden
C13_Witness ==
  /\ last.op = "maskApiKey"
  /\ last.value = [i \in 1..13 |-> "k"]
  /\ last.out[9] = "*"
  /\ last.out[10] = "k"

\* a text without the assignment lines of a name, every other line kept as
\* it is, from line start i on: a line is an assignment line of the name
\* when the remove pattern matches the line taken alone; lf tells whether
\* the "\n" that ends such a line goes with it
RECURSIVE WithoutOwnLines(_, _, _, _, _)
WithoutOwnLines(s, i, name, sh, lf) ==
  IF i > Len(s) THEN <<>>
  ELSE IF RemoveEndAt(SubSeq(s, i, LineEnd(s, i) - 1), 1, name, sh) # 0
    THEN (IF lf \/ LineEnd(s, i) > Len(s) THEN <<>> ELSE <<NL>>)
           \o WithoutOwnLines(s, LineEnd(s, i) + 1, name, sh, lf)
  ELSE SubSeq(s, i, IF LineEnd(s, i) > Len(s) THEN Len(s) ELSE LineEnd(s, i))
         \o WithoutOwnLines(s, LineEnd(s, i) + 1, name, sh, lf)

\* what a text may become when only the assignment lines of a name may go
OwnLinesOnly(s, name, sh) ==
  {s} \cup {WithoutOwnLines(s, 1, name, sh, lf) : lf \in BOOLEAN}

\* C14 as stated: a writeEnvVariable(name, value) that changes the config
\* file, and a removeEnvVariable(name), leave every character of the file
\* that is not on an assignment line of name as it was; the write appends
\* its block at the end.
C14_UnrelatedContentPreserved ==
  [][/\ (/\ last'.op = "writeEnvVariable"
         /\ nops' = nops + 1
         /\ files' # files
         /\ ConfigContent(files) # Null)
          => \E kept \in OwnLinesOnly(ConfigContent(files), last'.name, shell) :
               ConfigContent(files')
                 = AppendBlock(kept, DefaultComment,
                               ExportLine(shell, last'.name, last'.value))
     /\ (/\ last'.op = "removeEnvVariable"
         /\ nops' = nops + 1
         /\ ConfigContent(files) # Null)
          => ConfigContent(files')
               \in OwnLinesOnly(ConfigContent(files), last'.name, shell)]_vars

C16_EnvWriteThrough ==
  [][/\ (last'.op = "storeApiKey" /\ nops' = nops + 1)
          => IF last'.ret
               THEN /\ env'[POSTMAN_API_KEY] = last'.value
                    /\ env'[POSTMAN_WORKSPACE_ID] = env[POSTMAN_WORKSPACE_ID]
               ELSE env' = env
     /\ (last'.op = "storeWorkspaceId" /\ nops' = nops + 1)
          => IF last'.ret
               THEN /\ env'[POSTMAN_WORKSPACE_ID] = last'.workspaceId
                    /\ env'[POSTMAN_API_KEY] = env[POSTMAN_API_KEY]
               ELSE env' = env
     /\ (last'.op \in {"clearCredentials", "logout"} /\ nops' = nops + 1)
          => /\ env'[POSTMAN_API_KEY] = Null
             /\ env'[POSTMAN_WORKSPACE_ID] = Null]_vars

\* a key has been stored over another one that the environment held before
C16_Witness ==
  /\ last.op = "storeApiKey"
  /\ last.ret
  /\ nops = 2
  /\ last.value = KeyA
  /\ env[POSTMAN_API_KEY] = KeyA
  /\ env[POSTMAN_WORKSPACE_ID] = Null

\* C17: authenticateWithApiKey, validateCredentials, checkCredentialsHealth
\* and refreshAuthStatus end without an exception, and when the remote
\* validation collaborator was called and it rejected the key, failed to
\* reach the service or raised an exception, they return false.
C17_RemoteFailuresContained ==
  last.op \in {"authenticateWithApiKey", "validateCredentials",
               "checkCredentialsHealth", "refreshAuthStatus"}
  => /\ ~last.thrown
     /\ (last.called /\ last.remote # "valid") => ~last.ret

\* checkCredentialsHealth, which has no catch of its own, has returned false
\* after the collaborator raised an exception on a stored key
C17_Witness ==
  /\ last.op = "checkCredentialsHealth"
  /\ last.called
  /\ last.remote = "raised"
  /\ ~last.ret
  /\ ~last.thrown

\* C18 as stated: when invocations of writeEnvVariable run at the same time
\* on one config file and none of them is inside its write, the file holds
\* exactly the new content of the invocation that wrote last, computed from
\* the content that invocation read, never a mixture of two outputs.
C18_LastWriteWins ==
  (/\ last.op = "writeEnvVariable"
   /\ \A p \in Procs : procs[p].pc # "write")
  => ConfigContent(files) = last.out

\* C19 as stated: on a readable config file of a shell that supports
\* persistence, writeEnvVariable(name, value, {overwrite: false}) returns
\* true and leaves the files as they are when the canonical config file
\* holds a line for name; when it holds none ( and can be written ) the call
\* returns true and appends its block, whatever overwrite is.
C19_NonOverwritingWrite ==
  [][(/\ last'.op = "writeEnvVariable"
      /\ nops' = nops + 1
      /\ perm # "none"
      /\ supportsEnvPersistence(shell))
     => /\ (/\ CountLines(ConfigContent(files), 1, last'.name, shell) > 0
            /\ ~last'.overwrite)
             => last'.ret /\ files' = files
        /\ (/\ CountLines(ConfigContent(files), 1, last'.name, shell) = 0
            /\ perm = "rw")
             => /\ last'.ret
                /\ ConfigContent(files')
                     = AppendBlock(IF ConfigContent(files) = Null THEN <<>>
                                   ELSE ConfigContent(files),
                                   DefaultComment,
                                   ExportLine(shell, last'.name,
                                              last'.value))]_vars

\* the line starts of a text: position 1 and every position after a "\n"
LineStarts(s) == {i \in 1..Len(s) : i = 1 \/ s[i - 1] = NL}

\* the line starts of a text at which the locate pattern of a name matches
MatchingLines(s, name, sh) ==
  {i \in LineStarts(s) : LocateAt(s, i, name, sh) # Null}

\* the candidate files, by their rank in the Shell Detector's order, that
\* exist, can be read and hold a matching line for a name
MatchingFiles(fs, name) ==
  {i \in 1..Len(getAllShellConfigPaths(shell)) :
     /\ fs[getAllShellConfigPaths(shell)[i]] # Null
     /\ perm # "none"
     /\ MatchingLines(fs[getAllShellConfigPaths(shell)[i]], name, shell) # {}}

Lowest(S) == CHOOSE i \in S : \A j \in S : i <= j

\* the captured value of the first matching line of a text
FirstCapture(s, name, sh) ==
  LocateAt(s, Lowest(MatchingLines(s, name, sh)), name, sh)

\* C20: readEnvVariable(name) returns the value of process.env when it is
\* present and not empty, whatever the files hold; otherwise the captured
\* value of the first matching line of the first candidate file, in the
\* Shell Detector's order, that exists, can be read and has a matching
\* line; otherwise null.
C20_ReadOrder ==
  last.op = "readEnvVariable"
  => last.out
       = IF env[last.name] # Null /\ env[last.name] # <<>>
           THEN env[last.name]
         ELSE IF MatchingFiles(files, last.name) = {} THEN Null
         ELSE FirstCapture(
                files[getAllShellConfigPaths(shell)[
                        Lowest(MatchingFiles(files, last.name))]],
                last.name, shell)

\* bash: process.env holds an empty value, .bashrc holds two lines for the
\* name and .profile one; the read has returned the value of the first line
\* of .bashrc
C20_Witness ==
  /\ last.op = "readEnvVariable"
  /\ last.name = API_KEY
  /\ shell = "bash"
  /\ env[API_KEY] = <<>>
  /\ files[".bashrc"] # Null
  /\ files[".profile"] # Null
  /\ Cardinality(MatchingLines(files[".bashrc"], API_KEY, shell)) = 2
  /\ extractEnvVariable(files[".profile"], API_KEY, shell) = <<"p">>
  /\ last.out = <<"x">>

\* the one path the claim names: the candidate of lowest rank that exists,
\* else the first candidate of the list
CanonicalPath(fs) ==
  IF \E i \in 1..Len(getAllShellConfigPaths(shell)) :
       fs[getAllShellConfigPaths(shell)[i]] # Null
    THEN getAllShellConfigPaths(shell)[
           Lowest({i \in 1..Len(getAllShellConfigPaths(shell)) :
                     fs[getAllShellConfigPaths(shell)[i]] # Null})]
  ELSE IF Len(getAllShellConfigPaths(shell)) > 0
    THEN getAllShellConfigPaths(shell)[1]
  ELSE ".profile"

C22_AppendedBlockFormat ==
  [][(last'.op = "writeEnvVariable" /\ nops' = nops + 1 /\ files' # files)
     => LET c == ConfigContent(files')
            line ==
              CASE shell = "fish" ->
                     <<"set", " ", "-gx", " ">> \o last'.name
                       \o <<" ", "\"">> \o last'.value \o <<"\"">>
                [] shell = "powershell" ->
                     <<"$env:">> \o last'.name
                       \o <<" ", "=", " ", "\"">> \o last'.value \o <<"\"">>
                [] OTHER ->
                     <<"export", " ">> \o last'.name
                       \o <<"=", "\"">> \o last'.value \o <<"\"">>
            block == <<"\n", "#", " ", "Added by flowman-cli", "\n">>
                       \o line \o <<"\n">>
        IN /\ c # Null
           /\ Len(c) >= Len(block)
           /\ SubSeq(c, Len(c) - Len(block) + 1, Len(c)) = block
           /\ Len(c) > Len(block) => c[Len(c) - Len(block)] = "\n"]_vars

\* a write for an unlisted shell has added its block after the user's text
C22_Witness ==
  /\ last.op = "writeEnvVariable"
  /\ last.ret
  /\ shell = "sh"
  /\ last.value = <<"a", " ", "b">>
  /\ nops = 2
  /\ CountLines(ConfigContent(files), 1, last.name, shell) = 1
  /\ Len(ConfigContent(files)) > 13

\* C23 as stated: detectShell returns a name for every SHELL and platform,
\* and for a name that the tables do not list the derived operations use
\* the defaults: getShellConfigPath() answers with the first existing file
\* of the list [.profile] (.profile itself when none exists),
\* getExportSyntax() with 'export', and the pattern is the bash pattern.
C23_ShellDefaults ==
  (/\ last.op \in {"getShellConfigPath", "getExportSyntax"}
   /\ shell \notin {"bash", "zsh", "fish", "cmd", "powershell"})
  => /\ last.op = "getShellConfigPath" => last.out = <<".profile">>
     /\ last.op = "getExportSyntax" => last.out = <<"export">>
     /\ PatternOf(shell) = "bash"

\* C24: supportsEnvPersistence is false for cmd and true for every other
\* name; under cmd storeApiKey and storeWorkspaceId return false and leave
\* the files and process.env as they were, and under another shell, with
\* writable files, the store of a well-formed key succeeds.
C24_PersistenceSupport ==
  [][(last'.op \in {"storeApiKey", "storeWorkspaceId"} /\ nops' = nops + 1)
     => /\ \A sh \in Shells \cup ObjectPrototypeNames :
             supportsEnvPersistence(sh) = (sh # "cmd")
        /\ shell = "cmd"
             => ~last'.ret /\ files' = files /\ env' = env
        /\ (/\ shell # "cmd"
            /\ perm = "rw"
            /\ last'.op = "storeApiKey"
            /\ validateApiKey(last'.value))
             => last'.ret]_vars

\* under cmd the store of a well-formed key has been refused
C24_Witness ==
  /\ last.op = "storeApiKey"
  /\ shell = "cmd"
  /\ validateApiKey(last.value)
  /\ ~last.ret
  /\ env[POSTMAN_API_KEY] # last.value
  /\ \A p \in {".profile", ".bashrc"} : files[p] = Null

\* process.env and the config files agree: for both credential names the
\* process reads what a fresh process with an empty environment reads
Coherent(en, fs) ==
  \A n \in CredentialNames :
    readEnvVariable(en, fs, shell, perm, n) = FreshRead(fs, n)

\* C25 as stated: when process.env and the config files agree, they still
\* agree after storeApiKey, storeWorkspaceId, clearCredentials,
\* authenticateWithApiKey or logout.
C25_CacheCoherence ==
  [][(nops' = nops + 1 /\ Coherent(env, files)) => Coherent(env', files')]_vars

\* C26 as stated: when authenticateWithApiKey(apiKey, workspaceId) has
\* returned true, the key handed to the remote validation collaborator was
\* apiKey, getApiKey() returns apiKey and getAuthStatus().authenticated is
\* true, whatever apiKey is.
C26_AuthenticatedWithGivenKey ==
  (last.op = "authenticateWithApiKey" /\ last.ret)
  => /\ last.called
     /\ last.key = last.value
     /\ getApiKey(env, files, shell, perm) = last.value
     /\ Status.authenticated

\* in every config file, every comment line that the tool inserts for the
\* API key is followed at once by an assignment line of POSTMAN_API_KEY, and
\* the file holds at most one such assignment line
WellFormedBlocks(fs) ==
  \A p \in Paths :
    fs[p] # Null
    => /\ \A i \in 1..Len(fs[p]) :
            fs[p][i] = ApiKeyComment
            => /\ i + 2 <= Len(fs[p])
               /\ fs[p][i + 1] = "\n"
               /\ RemoveEndAt(SubSeq(fs[p], i + 2, LineEnd(fs[p], i + 2) - 1),
                              1, POSTMAN_API_KEY, shell) # 0
       /\ CountLines(fs[p], 1, POSTMAN_API_KEY, shell) <= 1

\* C27 as stated: when the blocks of the API key are well-formed in every
\* config file, they still are after storeApiKey, storeWorkspaceId,
\* clearCredentials, authenticateWithApiKey or logout: no comment line is
\* left without its assignment line.
C27_BlocksWellFormed ==
  [][(nops' = nops + 1 /\ WellFormedBlocks(files))
     => WellFormedBlocks(files')]_vars

\* C28 as stated: for a key of 8 characters or more the string returned by
\* maskApiKey holds a mask character and does not hold the key as a
\* substring; for a shorter, empty or null key it is "****".
C28_MaskHidesKey ==
  last.op = "maskApiKey"
  => IF last.value # Null /\ Len(last.value) >= 8
       THEN /\ \E i \in 1..Len(last.out) : last.out[i] = "*"
            /\ ~\E j \in 0..(Len(last.out) - Len(last.value)) :
                  SubSeq(last.out, j + 1, j + Len(last.value)) = last.value
     ELSE last.out = <<"*", "*", "*", "*">>

\* C29 as stated: after refreshAuthStatus() has returned false,
\* isAuthenticated() returns false; after it has returned true, process.env
\* and the config files are as they were.
C29_RefreshEnforcesValidity ==
  [][(last'.op = "refreshAuthStatus" /\ nops' = nops + 1)
     => IF last'.ret THEN env' = env /\ files' = files
        ELSE ~isAuthenticated(env', files', shell, perm)]_vars

\* ------------------------------------------------------------------------
\* The login command
\* ------------------------------------------------------------------------

\* how a cancelled prompt comes back: the prompt resolves with the cancel
\* symbol of the prompt library, a truthy value that is neither an answer
\* nor a string, or it rejects with Error('cancelled'), the case the catch
\* of handleLogin provides for
CancelSymbol == "<symbol>"
PromptRejects == "<Error: cancelled>"

\* the answers of confirm
ConfirmAnswers == {"true", "false", CancelSymbol, PromptRejects}

\* the answers of select
SelectAnswers == {"api-key", "browser", CancelSymbol, PromptRejects}

\* the answers of text: a key that passes the validate callback of the
\* prompt, the cancel symbol, the rejection
TextAnswers == {KeyB, <<CancelSymbol>>, <<PromptRejects>>}

\* the login command has ended: first is what the first remote validation
\* did ("none" when it was not reached), declined whether re-authentication
\* was declined, cancelled whether a prompt that was shown was cancelled
LoginEnded(en, fs, first, ret, declined, cancelled) ==
  [env |-> en, files |-> fs, first |-> first, ret |-> ret,
   declined |-> declined, cancelled |-> cancelled]

\* handleApiKeyLogin after authenticateWithApiKey has returned a
LoginStored(a, first, c) ==
  LoginEnded(a.env, a.files, first, a.ret, FALSE, c)

\* LoginCommand.handleApiKeyLogin: text is awaited outside the try block, so
\* its rejection goes to the caller; validateApiKey returning false ends the
\* command, an exception goes to the catch; c tells that an earlier prompt
\* was cancelled
handleApiKeyLogin(en, fs, sh, pm, apiKey, first, second, c) ==
  IF apiKey = <<PromptRejects>>
    THEN LoginEnded(en, fs, "none", FALSE, FALSE, TRUE)
  ELSE IF PostmanClientThrows(first) \/ ~PostmanClient_validateApiKey(first)
    THEN LoginEnded(en, fs, first, FALSE, FALSE, c \/ apiKey = <<CancelSymbol>>)
  ELSE LoginStored(
         authenticateWithApiKey(en, fs, sh, pm, apiKey, Null, second),
         first, c \/ apiKey = <<CancelSymbol>>)

\* LoginCommand.handleBrowserLogin: "if (useApiKey)" takes every truthy
\* answer, the cancel symbol included
handleBrowserLogin(en, fs, sh, pm, useApiKey, apiKey, first, second, c) ==
  IF useApiKey = PromptRejects
    THEN LoginEnded(en, fs, "none", FALSE, FALSE, TRUE)
  ELSE IF useApiKey = "false"
    THEN LoginEnded(en, fs, "none", FALSE, FALSE, c)
  ELSE handleApiKeyLogin(en, fs, sh, pm, apiKey, first, second,
                         c \/ useApiKey = CancelSymbol)

\* handleLogin from "const authMethod = await select(...)" on: an answer
\* that is neither 'api-key' nor 'browser' takes neither branch
LoginMethodSelected(en, fs, sh, pm, method, useApiKey, apiKey, first, second, c) ==
  CASE method = "api-key" ->
         handleApiKeyLogin(en, fs, sh, pm, apiKey, first, second, c)
    [] method = "browser" ->
         handleBrowserLogin(en, fs, sh, pm, useApiKey, apiKey, first,
                            second, c)
    [] OTHER -> LoginEnded(en, fs, "none", FALSE, FALSE, TRUE)

\* LoginCommand.handleLogin, auth being what isAuthenticated() returns:
\* confirm is shown only when credentials are stored; "if (!shouldReauth)"
\* ends the command on false alone
handleLogin(en, fs, sh, pm, auth, reauth, method, useApiKey, apiKey, first, second) ==
  IF auth /\ reauth = PromptRejects
    THEN LoginEnded(en, fs, "none", FALSE, FALSE, TRUE)
  ELSE IF auth /\ reauth = "false"
    THEN LoginEnded(en, fs, "none", FALSE, TRUE, FALSE)
  ELSE LoginMethodSelected(en, fs, sh, pm, method, useApiKey, apiKey, first,
                           second, auth /\ reauth = CancelSymbol)

\* the login command, the prompts answering reauth, method, useApiKey and
\* apiKey and the remote service answering first to the validation of the
\* command and second to the one of authenticateWithApiKey
HandleLogin(auth, reauth, method, useApiKey, apiKey, first, second) ==
  /\ nops < MaxOps
  /\ \E r \in {handleLogin(env, files, shell, perm, auth, reauth, method,
                          useApiKey, apiKey, first, second)} :
        /\ env' = r.env
        /\ files' = r.files
        /\ last' = [NoOp EXCEPT !.op = "handleLogin", !.value = apiKey,
                                !.remote = r.first, !.ret = r.ret,
                                !.declined = r.declined,
                                !.cancelled = r.cancelled]
  /\ nops' = nops + 1
  /\ UNCHANGED <<shell, perm, procs>>

\* the runs of the login command: the answers of confirm, select, the
\* confirm of handleBrowserLogin and text, and of the remote service to the
\* validation of the command and to the one of authenticateWithApiKey. A
\* prompt that is not shown and a request that is not sent have one answer
\* standing for all, and a request for a key that is not a string cannot
\* be built
LoginRuns(auth) ==
  {run \in ConfirmAnswers \X SelectAnswers \X ConfirmAnswers \X TextAnswers
             \X RemoteFailures \X {"valid", "rejected"} :
     LET noKey == \/ auth /\ run[1] \in {"false", PromptRejects}
                  \/ run[2] \notin {"api-key", "browser"}
                  \/ run[2] = "browser" /\ run[3] \in {"false", PromptRejects}
     IN /\ ~auth => run[1] = "true"
        /\ (auth /\ run[1] \in {"false", PromptRejects}) => run[2] = "api-key"
        /\ run[2] # "browser" => run[3] = "true"
        /\ noKey => run[4] = KeyB
        /\ run[4] = <<CancelSymbol>> => run[5] = "error"
        /\ (noKey \/ run[4] = <<PromptRejects>>) => run[5] = "valid"
        /\ (noKey \/ run[5] # "valid") => run[6] = "valid"}

NextLogin ==
  \E auth \in {isAuthenticated(env, files, shell, perm)} :
    \E run \in LoginRuns(auth) :
      HandleLogin(auth, run[1], run[2], run[3], run[4], run[5], run[6])

SpecLogin == Init /\ [][NextLogin]_vars

\* C30: in the login command the config file and the process environment
\* are modified only after the first remote validation of the entered key
\* has returned true; when that validation returns false or throws, when
\* the user declines re-authentication, or when a prompt is cancelled, the
\* command ends with the stored credentials as they were before it started
C30_LoginOrdering ==
  [][(last'.op = "handleLogin" /\ nops' = nops + 1)
     => /\ (env' # env \/ files' # files) => last'.remote = "valid"
        /\ (last'.remote \in RemoteFailures \ {"valid"}
              \/ last'.declined \/ last'.cancelled)
             => (env' = env /\ files' = files)]_vars

====
